---- MODULE Spec2Model ----
(***************************************************************************)
(* Model of the text-analysis helpers of the repository:                   *)
(*   sentiment_analysis  (src/sentiment_analysis.py)                       *)
(*   summarize_text      (src/summarized_text_ai.py)                       *)
(* A Python str is a sequence of one-character strings, so that searching, *)
(* splitting, trimming and lower-casing are computed character by          *)
(* character, as the code computes them.  The remote model is the          *)
(* environment: it supplies the streamed lines, the response payload and   *)
(* the failures.  The topic extractor (classify of text_classifier, whose   *)
(* code is not part of the sources) follows section 4.3 of the             *)
(* specification; it is a pure function of the reply and has a             *)
(* specification of its own, TopicSpec, that draws the reply in Init.       *)
(* get_day_of_week (src/unnamed/part_000) is a pure function as well and   *)
(* has the specification DateSpec; so is the keyword classifier             *)
(* classify_text (src/text_classifier.py), with ClassifySpec.              *)
(***************************************************************************)
EXTENDS Integers, Sequences, FiniteSets, TLC

VARIABLES pc, requests, nread, full_response, generated_text, exc, result,
          arrived, prev, arg, out

vars == <<pc, requests, nread, full_response, generated_text, exc, result,
          arrived, prev, arg, out>>

(***************************************************************************)
(* Bounds of the model.                                                    *)
(***************************************************************************)
\* number of lines the environment sends in one streamed reply
MaxLines == 3
\* number of fragments the environment concatenates into one generated text
MaxSegs == 4
\* length of the replies given to the topic extractor
MaxReplyLen == 4
\* largest month and day numbers written into the strings given to get_day_of_week
MaxMonth == 13
MaxDay == 32
\* number of words of a text and of categories of a list given to classify_text
MaxWords == 2
MaxCategories == 2

(***************************************************************************)
(* Python str primitives.                                                  *)
(***************************************************************************)
\* characters removed by str.strip() and matched by the regex class \s
Whitespace == {" ", "\n", "\t"}

UpperLetters == <<"A", "B", "C", "D", "E", "F", "G", "H", "I", "J", "K", "L", "M", "N", "O", "P", "Q", "R", "S", "T", "U", "V", "W", "X", "Y", "Z">>

LowerLetters == <<"a", "b", "c", "d", "e", "f", "g", "h", "i", "j", "k", "l", "m", "n", "o", "p", "q", "r", "s", "t", "u", "v", "w", "x", "y", "z">>

\* str.lower() on one character
LowerOf ==
    [c \in {UpperLetters[i] : i \in 1..Len(UpperLetters)} |->
        LowerLetters[CHOOSE i \in 1..Len(UpperLetters) : UpperLetters[i] = c]]

LowerChar(c) == IF c \in DOMAIN LowerOf THEN LowerOf[c] ELSE c

\* str.lower()
Lower(s) == [i \in 1..Len(s) |-> LowerChar(s[i])]

SetMin(S) == CHOOSE x \in S : \A y \in S : x <= y

SetMax(S) == CHOOSE x \in S : \A y \in S : y <= x

\* str.strip()
Strip(s) ==
    LET keep == {i \in 1..Len(s) : s[i] \notin Whitespace}
    IN  IF keep = {} THEN <<>> ELSE SubSeq(s, SetMin(keep), SetMax(keep))

\* 1-based position of the first occurrence of pat in s at or after from, 0 if none
Find(s, pat, from) ==
    LET hits == {i \in from..(Len(s) - Len(pat) + 1) :
                    s[i] = pat[1] /\ SubSeq(s, i, i + Len(pat) - 1) = pat}
    IN  IF hits = {} THEN 0 ELSE SetMin(hits)

\* pat in s
Contains(s, pat) == Find(s, pat, 1) # 0

\* s.split(sep)
RECURSIVE Split(_, _)
Split(s, sep) ==
    LET i == Find(s, sep, 1)
    IN  IF i = 0 THEN <<s>>
        ELSE <<SubSeq(s, 1, i - 1)>> \o Split(SubSeq(s, i + Len(sep), Len(s)), sep)

\* s.replace(old, "")
RECURSIVE Remove(_, _)
Remove(s, old) ==
    LET i == Find(s, old, 1)
    IN  IF i = 0 THEN s
        ELSE SubSeq(s, 1, i - 1) \o Remove(SubSeq(s, i + Len(old), Len(s)), old)

\* s.rfind(c): 0-based index of the last occurrence of the character c, -1 if none
RFind(s, c) ==
    LET hits == {i \in 1..Len(s) : s[i] = c}
    IN  IF hits = {} THEN -1 ELSE SetMax(hits) - 1

\* s[:n] for 0 <= n
Prefix(s, n) == SubSeq(s, 1, IF n < Len(s) THEN n ELSE Len(s))

(***************************************************************************)
(* sentiment_analysis: parsing of the accumulated reply.                   *)
(***************************************************************************)
MarkerPositive == <<"s", "e", "n", "t", "i", "m", "e", "n", "t", ":", " ", "p", "o", "s", "i", "t", "i", "v", "e">>

MarkerNegative == <<"s", "e", "n", "t", "i", "m", "e", "n", "t", ":", " ", "n", "e", "g", "a", "t", "i", "v", "e">>

MarkerNeutral == <<"s", "e", "n", "t", "i", "m", "e", "n", "t", ":", " ", "n", "e", "u", "t", "r", "a", "l">>

MarkerRationale == <<"r", "a", "t", "i", "o", "n", "a", "l", "e", ":">>

Period == <<".">>

\* the length above which a rationale is cut
MaxRationaleLen == 100

TerminalPunctuation == {".", "!", "?"}

DefaultRationale == <<"n", "o", " ", "s", "p", "e", "c", "i", "f", "i", "c", " ", "r", "e", "a", "s", "o", "n", " ", "p", "r", "o", "v", "i", "d", "e", "d">>

ErrorRationale == <<"e", "r", "r", "o", "r", " ", "i", "n", " ", "a", "n", "a", "l", "y", "s", "i", "s">>

\* the terms removed from a reply without a rationale marker, in the loop's order
RemovedTerms == <<<<"p", "o", "s", "i", "t", "i", "v", "e">>, <<"n", "e", "g", "a", "t", "i", "v", "e">>, <<"n", "e", "u", "t", "r", "a", "l">>, <<"s", "e", "n", "t", "i", "m", "e", "n", "t", ":">>>>

\* a plausible slip: the first marker in the text decides, not the first in priority
ExtractSentimentByPosition(fr) ==
    LET low == Lower(fr)
        p   == Find(low, MarkerPositive, 1)
        n   == Find(low, MarkerNegative, 1)
        u   == Find(low, MarkerNeutral, 1)
        at  == {p, n, u} \ {0}
    IN  IF at = {} THEN "neutral"
        ELSE IF SetMin(at) = p THEN "positive"
        ELSE IF SetMin(at) = n THEN "negative"
        ELSE "neutral"

\* a plausible slip: the matched word is copied from the reply, with the default "unknown"
ExtractSentimentUnknown(fr) ==
    IF Contains(Lower(fr), MarkerPositive) THEN "positive"
    ELSE IF Contains(Lower(fr), MarkerNegative) THEN "negative"
    ELSE IF Contains(Lower(fr), MarkerNeutral) THEN "neutral"
    ELSE "unknown"

\* lines 48-57
ExtractSentiment(fr) ==
    IF Contains(Lower(fr), MarkerPositive) THEN "positive"
    ELSE IF Contains(Lower(fr), MarkerNegative) THEN "negative"
    ELSE IF Contains(Lower(fr), MarkerNeutral) THEN "neutral"
    ELSE "neutral"

\* lines 78-80 and 93-95
AddPeriod(rationale) ==
    IF rationale # <<>> /\ rationale[Len(rationale)] \notin TerminalPunctuation
    THEN rationale \o Period
    ELSE rationale

\* lines 62-69: the first sentence after the first rationale marker
FirstSentence(fr) ==
    LET rationale_part == Strip(Split(Lower(fr), MarkerRationale)[2])
    IN  IF Contains(rationale_part, Period)
        THEN Strip(Split(rationale_part, Period)[1]) \o Period
        ELSE Strip(rationale_part)

\* lines 71-76
Truncate(rationale) ==
    IF Len(rationale) > MaxRationaleLen
    THEN LET last_space == RFind(Prefix(rationale, MaxRationaleLen), " ")
         IN  IF last_space > 0 THEN Strip(Prefix(rationale, last_space)) ELSE rationale
    ELSE rationale

\* lines 84-86
RECURSIVE RemoveTerms(_, _)
RemoveTerms(s, terms) ==
    IF terms = <<>> THEN s ELSE RemoveTerms(Remove(s, Head(terms)), Tail(terms))

\* lines 59-95
ExtractRationale(fr) ==
    IF Contains(Lower(fr), MarkerRationale)
    THEN AddPeriod(Truncate(FirstSentence(fr)))
    ELSE LET cleaned_response == RemoveTerms(Lower(fr), RemovedTerms)
             sentences        == Split(cleaned_response, Period)
         IN  AddPeriod(IF sentences # <<>> THEN Strip(sentences[1]) ELSE DefaultRationale)

\* lines 46-102
ParseSentiment(fr) ==
    [sentiment |-> ExtractSentiment(fr), rationale |-> ExtractRationale(fr)]

(***************************************************************************)
(* Exceptions: the classes the calls can raise and their str().            *)
(***************************************************************************)
\* requests.exceptions.RequestException and its subclasses
RequestExceptions == {"ConnectionError", "Timeout", "HTTPError", "ChunkedEncodingError"}

\* every class modelled derives from Exception
Exceptions ==
    RequestExceptions \cup {"JSONDecodeError", "TypeError", "AttributeError", "RecursionError"}

\* "nothing", as the value of a variable that holds no exception or no result
None == "None"

\* str(e)
ExcText(e) ==
    CASE e = "ConnectionError"      -> <<"c", "o", "n", "n", "e", "c", "t", "i", "o", "n", " ", "r", "e", "f", "u", "s", "e", "d">>
      [] e = "Timeout"              -> <<"t", "i", "m", "e", "d", " ", "o", "u", "t">>
      [] e = "HTTPError"            -> <<"5", "0", "0", " ", "S", "e", "r", "v", "e", "r", " ", "E", "r", "r", "o", "r">>
      [] e = "ChunkedEncodingError" -> <<"c", "o", "n", "n", "e", "c", "t", "i", "o", "n", " ", "b", "r", "o", "k", "e", "n">>
      [] e = "JSONDecodeError"      -> <<"E", "x", "p", "e", "c", "t", "i", "n", "g", " ", "v", "a", "l", "u", "e">>
      [] e = "TypeError"            -> <<"c", "a", "n", " ", "o", "n", "l", "y", " ", "c", "o", "n", "c", "a", "t", "e", "n", "a", "t", "e", " ", "s", "t", "r">>
      [] e = "AttributeError"       -> <<"o", "b", "j", "e", "c", "t", " ", "h", "a", "s", " ", "n", "o", " ", "a", "t", "t", "r", "i", "b", "u", "t", "e">>
      [] e = "RecursionError"       -> <<"m", "a", "x", "i", "m", "u", "m", " ", "r", "e", "c", "u", "r", "s", "i", "o", "n", " ", "d", "e", "p", "t", "h", " ", "e", "x", "c", "e", "e", "d", "e", "d">>
      [] OTHER                      -> <<"e", "r", "r", "o", "r">>

\* a plausible slip: only transport errors are caught
SA_CatchesTransportOnly(e) == e \in RequestExceptions

\* line 104: except Exception
SA_Catches(e) == e \in Exceptions

\* a plausible slip: the except clause parses what was accumulated so far
SA_FailurePartial(e) ==
    [sentiment |-> ExtractSentiment(full_response),
     rationale |-> ExtractRationale(full_response),
     error |-> ExcText(e)]

\* lines 107-112
SA_Failure(e) ==
    [sentiment |-> "neutral", rationale |-> ErrorRationale, error |-> ExcText(e)]

(***************************************************************************)
(* The streamed reply: what one line of response.iter_lines() can be.      *)
(***************************************************************************)
LongWord == [i \in 1..(MaxRationaleLen - 1) |-> "x"]

\* the message.content fragments the remote model sends
Fragments ==
    { <<"S", "e", "n", "t", "i", "m", "e", "n", "t", ":", " ", "P", "o", "s", "i", "t", "i", "v", "e">>,
      <<"s", "e", "n", "t", "i", "m", "e", "n", "t", ":", " ", "n", "e", "g", "a", "t", "i", "v", "e">>,
      <<"\n", "S", "e", "n", "t", "i", "m", "e", "n", "t", ":", " ", "N", "e", "u", "t", "r", "a", "l">>,
      <<"\n", "R", "a", "t", "i", "o", "n", "a", "l", "e", ":">>,
      <<" ", "G", "o", "o", "d", " ", "p", "r", "o", "d", "u", "c", "t", ".">>,
      <<" ", "o", "k", "!">>,
      <<"p", "o", "s", "n", "e", "u", "t", "r", "a", "l", "i", "t", "i", "v", "e">>,
      <<"P", "o", "s", "i", "t", "i", "v", "e", ".">>,
      LongWord }

\* a plausible slip: `=` for `+=`, the last fragment replaces the text so far
AccumulateLast(full, line) ==
    IF line.kind = "content" THEN line.content ELSE full

\* lines 41-44: what one line adds to full_response; its content when it is a
\* JSON object with message.content, nothing when it is empty or has none
Accumulate(full, line) ==
    IF line.kind = "content" THEN full \o line.content ELSE full

\* a line is empty, a JSON object with message.content, a JSON object without
\* it, a JSON object whose content is not a string, or not JSON at all
Lines ==
    [kind : {"content"}, content : Fragments]
      \cup [kind : {"empty", "no_content", "bad_content", "malformed"}, content : {<<>>}]

(***************************************************************************)
(* summarize_text: parsing of the generated text.                          *)
(***************************************************************************)
MarkerSummary == <<"S", "U", "M", "M", "A", "R", "Y", ":">>

MarkerPoints == <<"P", "O", "I", "N", "T", "S", ":">>

NoSummary == <<"N", "o", " ", "s", "u", "m", "m", "a", "r", "y", " ", "g", "e", "n", "e", "r", "a", "t", "e", "d">>

FailedSummary == <<"F", "a", "i", "l", "e", "d", " ", "t", "o", " ", "g", "e", "n", "e", "r", "a", "t", "e", " ", "s", "u", "m", "m", "a", "r", "y">>

ErrorPrefix == <<"E", "r", "r", "o", "r", ":", " ">>

\* a plausible slip: the markers are matched in any letter case (re.IGNORECASE)
ReSplitIgnoreCase(s) ==
    LET RECURSIVE go(_)
        go(t) ==
            LET a    == Find(Lower(t), Lower(MarkerSummary), 1)
                b    == Find(Lower(t), Lower(MarkerPoints), 1)
                hits == {a, b} \ {0}
            IN  IF hits = {} THEN <<t>>
                ELSE LET i == SetMin(hits)
                         m == IF i = a THEN MarkerSummary ELSE MarkerPoints
                     IN  <<SubSeq(t, 1, i - 1)>> \o go(SubSeq(t, i + Len(m), Len(t)))
    IN  go(s)

\* line 80: re.split(r'SUMMARY:|POINTS:', s); the leftmost marker is cut out,
\* and the rest is split again
RECURSIVE ReSplit(_)
ReSplit(s) ==
    LET a    == Find(s, MarkerSummary, 1)
        b    == Find(s, MarkerPoints, 1)
        hits == {a, b} \ {0}
    IN  IF hits = {} THEN <<s>>
        ELSE LET i == SetMin(hits)
                 m == IF i = a THEN MarkerSummary ELSE MarkerPoints
             IN  <<SubSeq(s, 1, i - 1)>> \o ReSplit(SubSeq(s, i + Len(m), Len(s)))

\* line 93, the lookahead (?=\n-|\n|$) at the 1-based position k of s; without
\* re.MULTILINE, $ matches at the end and before a newline that ends the string
Lookahead(s, k) ==
    \/ k + 1 <= Len(s) /\ s[k] = "\n" /\ s[k + 1] = "-"
    \/ k <= Len(s) /\ s[k] = "\n"
    \/ k = Len(s) + 1
    \/ k = Len(s) /\ s[k] = "\n"

\* line 93: re.findall(r'-\s*(.*?)(?=\n-|\n|$)', s, re.DOTALL) from position pos.
\* A match starts at the next dash; \s* takes all the whitespace after it (it
\* never gives any back: the rest of the pattern matches wherever \s* stops,
\* at the latest at the end of s); the lazy group stops at the first position
\* where the lookahead holds; the next match is searched from there.
RECURSIVE FindAll(_, _)
FindAll(s, pos) ==
    LET dashes == {i \in pos..Len(s) : s[i] = "-"}
    IN  IF dashes = {} THEN <<>>
        ELSE LET dash == SetMin(dashes)
                 j    == SetMin({i \in (dash + 1)..(Len(s) + 1) :
                                    i = Len(s) + 1 \/ s[i] \notin Whitespace})
                 k    == SetMin({i \in j..(Len(s) + 1) : Lookahead(s, i)})
             IN  <<SubSeq(s, j, k - 1)>> \o FindAll(s, k)

NonEmpty(point) == Strip(point) # <<>>

\* a plausible slip: the captures are neither trimmed nor filtered
ExtractPointsRaw(points_text) == FindAll(points_text, 1)

\* a plausible slip: only the first bullet is taken (re.search instead of re.findall)
ExtractPointsFirst(points_text) ==
    LET found == SelectSeq(FindAll(points_text, 1), NonEmpty)
    IN  IF found = <<>> THEN <<>> ELSE <<Strip(found[1])>>

\* line 93: [point.strip() for point in re.findall(...) if point.strip()]
ExtractPoints(points_text) ==
    LET found == SelectSeq(FindAll(points_text, 1), NonEmpty)
    IN  [i \in 1..Len(found) |-> Strip(found[i])]

\* lines 83-85; parts[1] of the code is the second segment
SummaryOf(parts) ==
    IF Len(parts) >= 2 THEN Strip(parts[2]) ELSE NoSummary

\* lines 88-93; parts[2] of the code is the third segment
PointsOf(parts) ==
    IF Len(parts) >= 3 THEN ExtractPoints(parts[3]) ELSE <<>>

SummaryRecord(text_summary, points) ==
    [summary |-> [text_summary |-> text_summary, points |-> points]]

\* lines 75-103, for the stripped content of the message
ParseSummary(text) ==
    IF text = <<>>
    THEN SummaryRecord(FailedSummary, <<>>)
    ELSE SummaryRecord(SummaryOf(ReSplit(text)), PointsOf(ReSplit(text)))

\* lines 105 and 108: the two except clauses
ST_Catches(e) == e \in RequestExceptions \cup {"JSONDecodeError", "KeyError", "AttributeError"}

\* lines 107 and 110
ST_Failure(e) == SummaryRecord(ErrorPrefix \o ExcText(e), <<>>)

(***************************************************************************)
(* The response payload of summarize_text.                                 *)
(***************************************************************************)
\* the pieces the remote model builds its message content from
SummaryFragments ==
    << <<"S", "U", "M", "M", "A", "R", "Y", ":">>,
       <<"P", "O", "I", "N", "T", "S", ":">>,
       <<" ", "S", "h", "o", "r", "t", " ", "s", "u", "m", "m", "a", "r", "y", ":", " ", "f", "i", "n", "e", ".", "\n">>,
       <<"\n", "-", " ", "o", "n", "e", "\n", "-", " ", "t", "w", "o", " ">>,
       <<"\n", "-", " ", "t", "h", "r", "e", "e">>,
       <<"\n", "-">>,
       <<"\n", "w", "e", "l", "l", "-", "k", "n", "o", "w", "n">> >>

RECURSIVE Concat(_)
Concat(pieces) == IF pieces = <<>> THEN <<>> ELSE Head(pieces) \o Concat(Tail(pieces))

\* the message contents the remote model can send
Contents ==
    UNION {{Concat([i \in 1..n |-> SummaryFragments[f[i]]]) :
              f \in [1..n -> 1..Len(SummaryFragments)]} : n \in 0..MaxSegs}

\* the decoded body: an object with message.content, an object without
\* "message", an object whose message has no "content", an object whose
\* content is no string, and a value that is no object
Payloads ==
    [kind : {"content"}, content : Contents]
      \cup [kind : {"no_message", "no_content", "bad_content", "not_object"}, content : {<<>>}]

\* the result the caller fed back in, when this call is such a second call
Previous == CHOOSE r \in prev : TRUE

\* the lines a streamed reply is made of: any lines, or, when the caller fed a
\* rationale back in, that rationale in one line
StreamLines ==
    IF prev = {} THEN Lines
    ELSE {[kind |-> "content", content |-> Previous.rationale]}

StreamLength == IF prev = {} THEN MaxLines ELSE 1

\* the decoded bodies of a response: any payload, or, when the caller fed a
\* text_summary back in, that text as the message content
ResponsePayloads ==
    IF prev = {} THEN Payloads
    ELSE {[kind |-> "content", content |-> Previous.summary.text_summary]}

\* a reply of the sentiment model that has none of the markers
NoSentimentMarker(reply) ==
    \A m \in {MarkerPositive, MarkerNegative, MarkerNeutral, MarkerRationale} :
        ~Contains(Lower(reply), m)

\* a generated text that has none of the markers
NoSummaryMarker(text) == text # <<>> /\ Len(ReSplit(text)) = 1

Init ==
    /\ pc = "idle"
    /\ requests = 0
    /\ nread = 0
    /\ full_response = <<>>
    /\ generated_text = <<>>
    /\ exc = None
    /\ result = None
    /\ arrived = <<>>
    /\ prev = {}
    /\ arg = None
    /\ out = None

\* the except clause of sentiment_analysis (lines 104-112), or the exception propagating
SA_Raise(e) ==
    /\ exc' = e
    /\ IF SA_Catches(e)
       THEN pc' = "sa_done" /\ result' = SA_Failure(e)
       ELSE pc' = "sa_raised" /\ result' = None

\* the caller invokes sentiment_analysis(text); lines 15-25 build the prompt
SA_Call ==
    /\ pc = "idle"
    /\ pc' = "sa_post"
    /\ UNCHANGED <<requests, nread, full_response, generated_text, exc, result, arrived, prev>>
    /\ UNCHANGED <<arg, out>>

\* lines 29-39: requests.post returns a response
SA_PostOk ==
    /\ pc = "sa_post"
    /\ requests' = requests + 1
    /\ full_response' = <<>>
    /\ pc' = "sa_iter"
    /\ UNCHANGED <<nread, generated_text, exc, result, arrived, prev>>
    /\ UNCHANGED <<arg, out>>

\* lines 29-36: requests.post raises
SA_PostFail ==
    /\ pc = "sa_post"
    /\ requests' = requests + 1
    /\ \E e \in {"ConnectionError", "Timeout"} : SA_Raise(e)
    /\ UNCHANGED <<nread, full_response, generated_text, arrived, prev>>
    /\ UNCHANGED <<arg, out>>

\* lines 40-44: one iteration of the loop over response.iter_lines()
SA_Line ==
    /\ pc = "sa_iter"
    /\ nread < StreamLength
    /\ \E line \in StreamLines :
         /\ nread' = nread + 1
         /\ arrived' = Append(arrived, line)
         /\ CASE line.kind \in {"empty", "no_content", "content"} ->
                   /\ full_response' = Accumulate(full_response, line)
                   /\ UNCHANGED <<pc, exc, result>>
              [] line.kind = "bad_content" ->
                   SA_Raise("TypeError") /\ UNCHANGED full_response
              [] line.kind = "malformed" ->
                   SA_Raise("JSONDecodeError") /\ UNCHANGED full_response
    /\ UNCHANGED <<requests, generated_text, prev>>
    /\ UNCHANGED <<arg, out>>

\* line 40: the connection breaks while the stream is read
SA_StreamBreak ==
    /\ pc = "sa_iter"
    /\ SA_Raise("ChunkedEncodingError")
    /\ UNCHANGED <<requests, nread, full_response, generated_text, arrived, prev>>
    /\ UNCHANGED <<arg, out>>

\* lines 46-102: the stream is exhausted, the reply is parsed and returned
SA_Parse ==
    /\ pc = "sa_iter"
    /\ result' = ParseSentiment(full_response)
    /\ pc' = "sa_done"
    /\ UNCHANGED <<requests, nread, full_response, generated_text, exc, arrived, prev>>
    /\ UNCHANGED <<arg, out>>

\* the except clauses of summarize_text (lines 105-110), or the exception propagating
ST_Raise(e) ==
    /\ exc' = e
    /\ IF ST_Catches(e)
       THEN pc' = "st_done" /\ result' = ST_Failure(e)
       ELSE pc' = "st_raised" /\ result' = None

\* the caller invokes summarize_text(text); lines 16-62 build the payload
ST_Call ==
    /\ pc = "idle"
    /\ pc' = "st_post"
    /\ UNCHANGED <<requests, nread, full_response, generated_text, exc, result, arrived, prev>>
    /\ UNCHANGED <<arg, out>>

\* line 66: requests.post raises
ST_PostFail ==
    /\ pc = "st_post"
    /\ requests' = requests + 1
    /\ \E e \in {"ConnectionError", "Timeout"} : ST_Raise(e)
    /\ UNCHANGED <<nread, full_response, generated_text, arrived, prev>>
    /\ UNCHANGED <<arg, out>>

\* line 66: requests.post returns a response
ST_PostOk ==
    /\ pc = "st_post"
    /\ requests' = requests + 1
    /\ pc' = "st_response"
    /\ UNCHANGED <<nread, full_response, generated_text, exc, result, arrived, prev>>
    /\ UNCHANGED <<arg, out>>

\* line 67: raise_for_status() raises for an HTTP error status
ST_HttpError ==
    /\ pc = "st_response"
    /\ ST_Raise("HTTPError")
    /\ UNCHANGED <<requests, nread, full_response, generated_text, arrived, prev>>
    /\ UNCHANGED <<arg, out>>

\* line 70: response.json() raises: the body is no JSON (JSONDecodeError), or it
\* is nested deeper than the decoder's recursion limit (RecursionError, which
\* Response.json() does not convert)
ST_JsonFail ==
    /\ pc = "st_response"
    /\ \E e \in {"JSONDecodeError", "RecursionError"} : ST_Raise(e)
    /\ UNCHANGED <<requests, nread, full_response, generated_text, arrived, prev>>
    /\ UNCHANGED <<arg, out>>

\* lines 70-103: the body is decoded, the content is stripped and parsed
ST_Payload ==
    /\ pc = "st_response"
    /\ \E p \in ResponsePayloads :
         CASE p.kind = "content" ->
                /\ generated_text' = Strip(p.content)
                /\ result' = ParseSummary(Strip(p.content))
                /\ pc' = "st_done"
                /\ UNCHANGED exc
           [] p.kind \in {"no_message", "no_content"} ->
                /\ generated_text' = <<>>
                /\ result' = ParseSummary(<<>>)
                /\ pc' = "st_done"
                /\ UNCHANGED exc
           [] p.kind \in {"bad_content", "not_object"} ->
                ST_Raise("AttributeError") /\ UNCHANGED generated_text
    /\ UNCHANGED <<requests, nread, full_response, arrived, prev>>
    /\ UNCHANGED <<arg, out>>

\* the call is over; the next call starts from nothing
Return ==
    /\ pc \in {"sa_done", "sa_raised", "st_done", "st_raised"}
    /\ pc' = "idle"
    /\ requests' = 0
    /\ nread' = 0
    /\ full_response' = <<>>
    /\ generated_text' = <<>>
    /\ exc' = None
    /\ result' = None
    /\ arrived' = <<>>
    /\ prev' = {}
    /\ UNCHANGED <<arg, out>>

\* the caller of sentiment_analysis takes the rationale of a reply that had
\* no marker and calls again; the remote model echoes that rationale
SA_Refeed ==
    /\ pc = "sa_done"
    /\ exc = None
    /\ NoSentimentMarker(full_response)
    /\ prev' = {result}
    /\ pc' = "sa_post"
    /\ requests' = 0
    /\ nread' = 0
    /\ full_response' = <<>>
    /\ arrived' = <<>>
    /\ result' = None
    /\ UNCHANGED <<generated_text, exc>>
    /\ UNCHANGED <<arg, out>>

\* the caller of summarize_text takes the text_summary of a generated text that
\* had no marker and calls again; the remote model echoes that text
ST_Refeed ==
    /\ pc = "st_done"
    /\ exc = None
    /\ NoSummaryMarker(generated_text)
    /\ prev' = {result}
    /\ pc' = "st_post"
    /\ requests' = 0
    /\ generated_text' = <<>>
    /\ result' = None
    /\ UNCHANGED <<nread, full_response, exc, arrived>>
    /\ UNCHANGED <<arg, out>>

Next ==
    \/ SA_Call
    \/ SA_PostOk
    \/ SA_PostFail
    \/ SA_Line
    \/ SA_StreamBreak
    \/ SA_Parse
    \/ ST_Call
    \/ ST_PostFail
    \/ ST_PostOk
    \/ ST_HttpError
    \/ ST_JsonFail
    \/ ST_Payload
    \/ SA_Refeed
    \/ ST_Refeed
    \/ Return

Spec == Init /\ [][Next]_vars

(***************************************************************************)
(* The topic extractor (specification, section 4.3).                       *)
(***************************************************************************)
Slash == "/"

\* the characters a topic is split on: whitespace and the slash
TopicSeparators == Whitespace \cup {Slash}

Unknown == <<"U", "n", "k", "n", "o", "w", "n">>

TopicError == <<"E", "r", "r", "o", "r">>

\* step 2: the pieces of s between the runs of separator characters; a run at
\* the start of s leaves an empty piece before it, a run at the end an empty
\* piece after it
RECURSIVE SplitOnRuns(_)
SplitOnRuns(s) ==
    LET seps == {i \in 1..Len(s) : s[i] \in TopicSeparators}
    IN  IF seps = {} THEN <<s>>
        ELSE LET i    == SetMin(seps)
                 rest == {j \in (i + 1)..Len(s) : s[j] \notin TopicSeparators}
             IN  IF rest = {} THEN <<SubSeq(s, 1, i - 1), <<>> >>
                 ELSE <<SubSeq(s, 1, i - 1)>> \o SplitOnRuns(SubSeq(s, SetMin(rest), Len(s)))

\* steps 1 and 2: trim; "Unknown" when nothing is left; else the first piece
TopicOf(reply) ==
    IF Strip(reply) = <<>> THEN Unknown ELSE SplitOnRuns(Strip(reply))[1]

TopicAlphabet == {"a", "B", " ", "\n", Slash}

\* the replies of the remote model: every text over the alphabet up to the
\* bound, and the reply of the scenario of the specification
TopicReplies ==
    UNION {[1..n -> TopicAlphabet] : n \in 0..MaxReplyLen}
      \cup {<<"T", "e", "c", "h", "n", "o", "l", "o", "g", "y", "/", "g", "a", "d", "g", "e", "t", "s">>}

TopicInit ==
    /\ pc = "topic_call"
    /\ arg \in TopicReplies
    /\ out = None
    /\ requests = 0
    /\ nread = 0
    /\ full_response = <<>>
    /\ generated_text = <<>>
    /\ exc = None
    /\ result = None
    /\ arrived = <<>>
    /\ prev = {}

\* steps 1 and 2: the reply arrived and the topic is extracted from it
Topic_Extract ==
    /\ pc = "topic_call"
    /\ out' = [Topic |-> TopicOf(arg)]
    /\ pc' = "topic_done"
    /\ UNCHANGED <<requests, nread, full_response, generated_text, exc, result, arrived, prev, arg>>

\* step 3: the transport failed or the payload is malformed
Topic_Fail ==
    /\ pc = "topic_call"
    /\ \E e \in {"ConnectionError", "JSONDecodeError"} :
          /\ exc' = e
          /\ out' = [Topic |-> TopicError, error |-> ExcText(e)]
    /\ pc' = "topic_done"
    /\ UNCHANGED <<requests, nread, full_response, generated_text, result, arrived, prev, arg>>

TopicNext ==
    \/ Topic_Extract
    \/ Topic_Fail

TopicSpec == TopicInit /\ [][TopicNext]_vars

(***************************************************************************)
(* get_day_of_week (src/unnamed/part_000).                                 *)
(***************************************************************************)
DigitChars == <<"0", "1", "2", "3", "4", "5", "6", "7", "8", "9">>

IsDigit(c) == \E i \in 1..10 : DigitChars[i] = c

DigitOf(c) == (CHOOSE i \in 1..10 : DigitChars[i] = c) - 1

\* line 19
days == <<"Monday", "Tuesday", "Wednesday", "Thursday", "Friday", "Saturday", "Sunday">>

\* line 24
InvalidDate == "Invalid date format. Please use YYYY-MM-DD."

\* the failure of strptime: it raises ValueError
ValueError == [error |-> "ValueError"]

\* %m of strptime, the pattern 1[0-2]|0[1-9]|[1-9] at position p of s: the
\* number of characters of the first alternative that matches, 0 when none does
MonthMatch(s, p) ==
    IF p > Len(s) THEN 0
    ELSE IF p < Len(s) /\ s[p] = "1" /\ s[p + 1] \in {"0", "1", "2"} THEN 2
    ELSE IF p < Len(s) /\ s[p] = "0" /\ IsDigit(s[p + 1]) /\ s[p + 1] # "0" THEN 2
    ELSE IF IsDigit(s[p]) /\ s[p] # "0" THEN 1
    ELSE 0

\* %d of strptime, the pattern 3[0-1]|[1-2]\d|0[1-9]|[1-9]| [1-9] at position p
DayMatch(s, p) ==
    IF p > Len(s) THEN 0
    ELSE IF p < Len(s) /\ s[p] = "3" /\ s[p + 1] \in {"0", "1"} THEN 2
    ELSE IF p < Len(s) /\ s[p] \in {"1", "2"} /\ IsDigit(s[p + 1]) THEN 2
    ELSE IF p < Len(s) /\ s[p] = "0" /\ IsDigit(s[p + 1]) /\ s[p + 1] # "0" THEN 2
    ELSE IF IsDigit(s[p]) /\ s[p] # "0" THEN 1
    ELSE IF p < Len(s) /\ s[p] = " " /\ IsDigit(s[p + 1]) /\ s[p + 1] # "0" THEN 2
    ELSE 0

\* int() of the matched text; a leading space of the day counts for nothing
NumberOf(text) ==
    IF Len(text) = 1 THEN DigitOf(text[1])
    ELSE (IF text[1] = " " THEN 0 ELSE 10 * DigitOf(text[1])) + DigitOf(text[2])

IsLeap(year) == year % 4 = 0 /\ (year % 100 # 0 \/ year % 400 = 0)

DaysInMonth(year, month) ==
    IF month = 2 THEN (IF IsLeap(year) THEN 29 ELSE 28)
    ELSE IF month \in {4, 6, 9, 11} THEN 30 ELSE 31

\* line 16: datetime.strptime(date_str, '%Y-%m-%d').  The string is matched
\* from its start against \d\d\d\d-(month)-(day); a match that does not end
\* at the end of the string ("unconverted data remains"), the year 0 and a
\* day the month does not have raise ValueError.
strptime(date_str) ==
    IF ~(Len(date_str) >= 5 /\ (\A i \in 1..4 : IsDigit(date_str[i])) /\ date_str[5] = "-")
    THEN ValueError
    ELSE LET mlen == MonthMatch(date_str, 6)
             dpos == 6 + mlen + 1
         IN  IF mlen = 0 \/ dpos - 1 > Len(date_str) \/ date_str[dpos - 1] # "-"
             THEN ValueError
             ELSE LET dlen == DayMatch(date_str, dpos)
                  IN  IF dlen = 0 \/ dpos + dlen - 1 # Len(date_str)
                      THEN ValueError
                      ELSE LET year  == 1000 * DigitOf(date_str[1]) + 100 * DigitOf(date_str[2])
                                          + 10 * DigitOf(date_str[3]) + DigitOf(date_str[4])
                               month == NumberOf(SubSeq(date_str, 6, 5 + mlen))
                               day   == NumberOf(SubSeq(date_str, dpos, Len(date_str)))
                           IN  IF year = 0 \/ day > DaysInMonth(year, month)
                               THEN ValueError
                               ELSE [year |-> year, month |-> month, day |-> day]

\* date.toordinal(): the days from 0001-01-01, which is day 1
toordinal(date_obj) ==
    LET y      == date_obj.year - 1
        before == {k \in 1..12 : k < date_obj.month}
        RECURSIVE sum(_)
        sum(ks) == IF ks = {} THEN 0
                   ELSE LET k == CHOOSE x \in ks : TRUE
                        IN  DaysInMonth(date_obj.year, k) + sum(ks \ {k})
    IN  y * 365 + (y \div 4) - (y \div 100) + (y \div 400) + sum(before) + date_obj.day

\* a plausible slip: the index counts from Sunday (the %w convention)
weekdayFromSunday(date_obj) == toordinal(date_obj) % 7

\* line 20: date_obj.weekday(), 0 for Monday to 6 for Sunday
weekday(date_obj) == (toordinal(date_obj) + 6) % 7

\* lines 14-24
get_day_of_week(date_str) ==
    LET date_obj == strptime(date_str)
    IN  IF date_obj = ValueError THEN InvalidDate
        ELSE days[weekday(date_obj) + 1]

Pad2(n) == <<DigitChars[(n \div 10) + 1], DigitChars[(n % 10) + 1]>>

Pad4(n) == Pad2(n \div 100) \o Pad2(n % 100)

Plain(n) == IF n < 10 THEN <<DigitChars[n + 1]>> ELSE Pad2(n)

\* the ways a caller writes a month or day number: two digits, no padding, or
\* padded with a space
Written(n) == {Pad2(n), Plain(n)} \cup (IF n < 10 THEN {<<" ">> \o Plain(n)} ELSE {})

\* the years of the strings: year 0, century years that are and are not leap
\* years, the years of the tests, a leap year
Years == {0, 1900, 2000, 2023, 2024, 2025}

\* the strings given to get_day_of_week
DateStrings ==
    {Pad4(y) \o <<"-">> \o mt \o <<"-">> \o dt :
        y \in Years,
        mt \in UNION {Written(n) : n \in 0..MaxMonth},
        dt \in UNION {Written(n) : n \in 0..MaxDay}}
      \cup { <<"i", "n", "v", "a", "l", "i", "d", "-", "d", "a", "t", "e">>, <<>>, <<"2", "0", "2", "3", "/", "0", "1", "/", "0", "1">>, <<"2", "0", "2", "3", "-", "0", "1", "-", "0", "1", " ">>,
             <<" ", "2", "0", "2", "3", "-", "0", "1", "-", "0", "1">>, <<"2", "3", "-", "0", "1", "-", "0", "5">>, <<"2", "0", "2", "3", "-", "0", "1">>, <<"2", "0", "2", "3", "-", "0", "1", "-", "0", "0", "1">>,
             <<"2", "0", "2", "3", "0", "1", "0", "1">>, <<"2", "0", "2", "3", "-", "0", "1", "-", "0", "1", "\n">> }

DateInit ==
    /\ pc = "date_call"
    /\ arg \in DateStrings
    /\ out = None
    /\ requests = 0
    /\ nread = 0
    /\ full_response = <<>>
    /\ generated_text = <<>>
    /\ exc = None
    /\ result = None
    /\ arrived = <<>>
    /\ prev = {}

\* lines 4-24: the call get_day_of_week(arg) returns
Date_Return ==
    /\ pc = "date_call"
    /\ out' = get_day_of_week(arg)
    /\ pc' = "date_done"
    /\ UNCHANGED <<requests, nread, full_response, generated_text, exc, result, arrived, prev, arg>>

DateNext == Date_Return

DateSpec == DateInit /\ [][DateNext]_vars

(***************************************************************************)
(* The keyword classifier (src/text_classifier.py).                        *)
(***************************************************************************)
\* lines 8-14: the transformers library is not installed
TRANSFORMERS_AVAILABLE == FALSE

\* a returned str, and the returned None
Returned(value) == [value |-> value]

ReturnedNone == [none |-> TRUE]

\* the regex class \w
IsWordChar(c) ==
    \/ \E i \in 1..Len(LowerLetters) : c = LowerLetters[i] \/ c = UpperLetters[i]
    \/ c = "_"
    \/ IsDigit(c)

\* re.findall(r'\w+', s): the maximal runs of word characters, in order
RECURSIVE FindWords(_)
FindWords(s) ==
    LET starts == {i \in 1..Len(s) : IsWordChar(s[i])}
    IN  IF starts = {} THEN <<>>
        ELSE LET i    == SetMin(starts)
                 ends == {j \in i..Len(s) : j = Len(s) \/ ~IsWordChar(s[j + 1])}
                 j    == SetMin(ends)
             IN  <<SubSeq(s, i, j)>> \o FindWords(SubSeq(s, j + 1, Len(s)))

\* Counter(words)[word]
CountOf(words, word) == Cardinality({i \in 1..Len(words) : words[i] = word})

\* sum(word_counts[word] for word in list if word in word_counts)
RECURSIVE SumCounts(_, _)
SumCounts(list, words) ==
    IF list = <<>> THEN 0
    ELSE CountOf(words, Head(list)) + SumCounts(Tail(list), words)

\* the elements of a set of words as a list (the order does not matter to a sum)
RECURSIVE ListOf(_)
ListOf(set) ==
    IF set = {} THEN <<>>
    ELSE LET w == CHOOSE x \in set : TRUE IN <<w>> \o ListOf(set \ {w})

\* line 75
tech_indicators ==
    << <<"s", "m", "a", "r", "t", "p", "h", "o", "n", "e">>,
       <<"p", "h", "o", "n", "e">>,
       <<"m", "o", "b", "i", "l", "e">>,
       <<"c", "a", "m", "e", "r", "a">>,
       <<"a", "p", "p">>,
       <<"d", "e", "v", "i", "c", "e">>,
       <<"g", "a", "d", "g", "e", "t">>,
       <<"t", "e", "c", "h">> >>

\* line 204
tech_terms ==
    << <<"s", "m", "a", "r", "t", "p", "h", "o", "n", "e">>,
       <<"p", "h", "o", "n", "e">>,
       <<"m", "o", "b", "i", "l", "e">>,
       <<"c", "a", "m", "e", "r", "a">>,
       <<"a", "p", "p">>,
       <<"d", "e", "v", "i", "c", "e">>,
       <<"g", "a", "d", "g", "e", "t">> >>

\* "tech"
Tech == <<"t", "e", "c", "h">>

\* lines 115-150
related_words_dict ==
    << [key |-> <<"f", "o", "o", "d">>,
        words |->
          << <<"e", "a", "t">>,
            <<"d", "r", "i", "n", "k">>,
            <<"m", "e", "a", "l">>,
            <<"r", "e", "s", "t", "a", "u", "r", "a", "n", "t">>,
            <<"c", "o", "o", "k">>,
            <<"t", "a", "s", "t", "e">>,
            <<"d", "e", "l", "i", "c", "i", "o", "u", "s">>,
            <<"b", "r", "e", "a", "k", "f", "a", "s", "t">>,
            <<"l", "u", "n", "c", "h">>,
            <<"d", "i", "n", "n", "e", "r">>,
            <<"s", "n", "a", "c", "k">>,
            <<"r", "e", "c", "i", "p", "e">>,
            <<"c", "u", "i", "s", "i", "n", "e">>,
            <<"c", "h", "e", "e", "s", "e">>,
            <<"m", "e", "a", "t">>,
            <<"v", "e", "g", "e", "t", "a", "b", "l", "e">>,
            <<"f", "r", "u", "i", "t">>,
            <<"d", "e", "s", "s", "e", "r", "t">>,
            <<"s", "w", "e", "e", "t">>,
            <<"s", "a", "v", "o", "r", "y">> >>],
       [key |-> <<"l", "e", "a", "r", "n", "i", "n", "g">>,
        words |->
          << <<"s", "t", "u", "d", "y">>,
            <<"e", "d", "u", "c", "a", "t", "i", "o", "n">>,
            <<"s", "c", "h", "o", "o", "l">>,
            <<"c", "o", "l", "l", "e", "g", "e">>,
            <<"u", "n", "i", "v", "e", "r", "s", "i", "t", "y">>,
            <<"c", "o", "u", "r", "s", "e">>,
            <<"l", "e", "a", "r", "n">>,
            <<"k", "n", "o", "w", "l", "e", "d", "g", "e">>,
            <<"t", "e", "a", "c", "h", "e", "r">>,
            <<"s", "t", "u", "d", "e", "n", "t">>,
            <<"c", "l", "a", "s", "s">>,
            <<"l", "e", "c", "t", "u", "r", "e">>,
            <<"b", "o", "o", "k">>,
            <<"r", "e", "a", "d">>,
            <<"u", "n", "d", "e", "r", "s", "t", "a", "n", "d">>,
            <<"c", "o", "m", "p", "r", "e", "h", "e", "n", "d">>,
            <<"s", "k", "i", "l", "l">>,
            <<"s", "u", "b", "j", "e", "c", "t">> >>],
       [key |-> <<"t", "e", "c", "h", "n", "o", "l", "o", "g", "y">>,
        words |->
          << <<"c", "o", "m", "p", "u", "t", "e", "r">>,
            <<"s", "o", "f", "t", "w", "a", "r", "e">>,
            <<"h", "a", "r", "d", "w", "a", "r", "e">>,
            <<"i", "n", "t", "e", "r", "n", "e", "t">>,
            <<"d", "i", "g", "i", "t", "a", "l">>,
            <<"d", "e", "v", "i", "c", "e">>,
            <<"a", "p", "p">>,
            <<"a", "p", "p", "l", "i", "c", "a", "t", "i", "o", "n">>,
            <<"p", "r", "o", "g", "r", "a", "m">>,
            <<"c", "o", "d", "e">>,
            <<"d", "a", "t", "a">>,
            <<"s", "y", "s", "t", "e", "m">>,
            <<"n", "e", "t", "w", "o", "r", "k">>,
            <<"o", "n", "l", "i", "n", "e">>,
            <<"e", "l", "e", "c", "t", "r", "o", "n", "i", "c">>,
            <<"t", "e", "c", "h">>,
            <<"s", "m", "a", "r", "t", "p", "h", "o", "n", "e">>,
            <<"p", "h", "o", "n", "e">>,
            <<"m", "o", "b", "i", "l", "e">>,
            <<"c", "a", "m", "e", "r", "a">>,
            <<"g", "a", "d", "g", "e", "t">>,
            <<"s", "c", "r", "e", "e", "n">>,
            <<"b", "a", "t", "t", "e", "r", "y">>,
            <<"s", "m", "a", "r", "t">>,
            <<"t", "e", "c", "h", "n", "o", "l", "o", "g", "y">>,
            <<"w", "i", "f", "i">>,
            <<"b", "l", "u", "e", "t", "o", "o", "t", "h">>,
            <<"w", "i", "r", "e", "l", "e", "s", "s">>,
            <<"p", "r", "o", "c", "e", "s", "s", "o", "r">>,
            <<"m", "e", "m", "o", "r", "y">>,
            <<"s", "t", "o", "r", "a", "g", "e">>,
            <<"p", "h", "o", "t", "o">>,
            <<"v", "i", "d", "e", "o">>,
            <<"r", "e", "s", "o", "l", "u", "t", "i", "o", "n">>,
            <<"d", "i", "s", "p", "l", "a", "y">>,
            <<"p", "i", "x", "e", "l">>,
            <<"b", "o", "u", "g", "h", "t">> >>],
       [key |-> <<"s", "p", "o", "r", "t", "s">>,
        words |->
          << <<"g", "a", "m", "e">>,
            <<"p", "l", "a", "y">>,
            <<"t", "e", "a", "m">>,
            <<"p", "l", "a", "y", "e", "r">>,
            <<"b", "a", "l", "l">>,
            <<"s", "c", "o", "r", "e">>,
            <<"w", "i", "n">>,
            <<"l", "o", "s", "e">>,
            <<"c", "o", "m", "p", "e", "t", "i", "t", "i", "o", "n">>,
            <<"m", "a", "t", "c", "h">>,
            <<"t", "o", "u", "r", "n", "a", "m", "e", "n", "t">>,
            <<"a", "t", "h", "l", "e", "t", "e">>,
            <<"c", "o", "a", "c", "h">>,
            <<"f", "i", "e", "l", "d">>,
            <<"c", "o", "u", "r", "t">>,
            <<"s", "t", "a", "d", "i", "u", "m">>,
            <<"e", "x", "e", "r", "c", "i", "s", "e">>,
            <<"f", "i", "t", "n", "e", "s", "s">> >>],
       [key |-> <<"e", "n", "t", "e", "r", "t", "a", "i", "n", "m", "e", "n", "t">>,
        words |->
          << <<"m", "o", "v", "i", "e">>,
            <<"f", "i", "l", "m">>,
            <<"s", "h", "o", "w">>,
            <<"t", "v">>,
            <<"t", "e", "l", "e", "v", "i", "s", "i", "o", "n">>,
            <<"m", "u", "s", "i", "c">>,
            <<"s", "o", "n", "g">>,
            <<"c", "o", "n", "c", "e", "r", "t">>,
            <<"p", "e", "r", "f", "o", "r", "m", "a", "n", "c", "e">>,
            <<"a", "c", "t", "o", "r">>,
            <<"a", "c", "t", "r", "e", "s", "s">>,
            <<"c", "e", "l", "e", "b", "r", "i", "t", "y">>,
            <<"s", "t", "a", "r">>,
            <<"w", "a", "t", "c", "h">>,
            <<"l", "i", "s", "t", "e", "n">>,
            <<"e", "n", "j", "o", "y">>,
            <<"f", "u", "n">>,
            <<"a", "m", "u", "s", "e", "m", "e", "n", "t">> >>],
       [key |-> <<"h", "e", "a", "l", "t", "h">>,
        words |->
          << <<"d", "o", "c", "t", "o", "r">>,
            <<"h", "o", "s", "p", "i", "t", "a", "l">>,
            <<"m", "e", "d", "i", "c", "i", "n", "e">>,
            <<"m", "e", "d", "i", "c", "a", "l">>,
            <<"d", "i", "s", "e", "a", "s", "e">>,
            <<"s", "y", "m", "p", "t", "o", "m">>,
            <<"t", "r", "e", "a", "t", "m", "e", "n", "t">>,
            <<"t", "h", "e", "r", "a", "p", "y">>,
            <<"h", "e", "a", "l", "t", "h", "y">>,
            <<"w", "e", "l", "l", "n", "e", "s", "s">>,
            <<"f", "i", "t", "n", "e", "s", "s">>,
            <<"e", "x", "e", "r", "c", "i", "s", "e">>,
            <<"d", "i", "e", "t">>,
            <<"n", "u", "t", "r", "i", "t", "i", "o", "n">>,
            <<"b", "o", "d", "y">>,
            <<"m", "e", "n", "t", "a", "l">>,
            <<"p", "h", "y", "s", "i", "c", "a", "l">> >>],
       [key |-> <<"b", "u", "s", "i", "n", "e", "s", "s">>,
        words |->
          << <<"c", "o", "m", "p", "a", "n", "y">>,
            <<"c", "o", "r", "p", "o", "r", "a", "t", "i", "o", "n">>,
            <<"f", "i", "r", "m">>,
            <<"e", "n", "t", "e", "r", "p", "r", "i", "s", "e">>,
            <<"o", "r", "g", "a", "n", "i", "z", "a", "t", "i", "o", "n">>,
            <<"i", "n", "d", "u", "s", "t", "r", "y">>,
            <<"m", "a", "r", "k", "e", "t">>,
            <<"p", "r", "o", "d", "u", "c", "t">>,
            <<"s", "e", "r", "v", "i", "c", "e">>,
            <<"c", "u", "s", "t", "o", "m", "e", "r">>,
            <<"c", "l", "i", "e", "n", "t">>,
            <<"p", "r", "o", "f", "i", "t">>,
            <<"r", "e", "v", "e", "n", "u", "e">>,
            <<"s", "a", "l", "e", "s">>,
            <<"m", "a", "n", "a", "g", "e", "m", "e", "n", "t">>,
            <<"e", "x", "e", "c", "u", "t", "i", "v", "e">>,
            <<"f", "i", "n", "a", "n", "c", "e">> >>],
       [key |-> <<"t", "r", "a", "v", "e", "l">>,
        words |->
          << <<"t", "r", "i", "p">>,
            <<"j", "o", "u", "r", "n", "e", "y">>,
            <<"v", "a", "c", "a", "t", "i", "o", "n">>,
            <<"h", "o", "l", "i", "d", "a", "y">>,
            <<"t", "o", "u", "r">>,
            <<"t", "o", "u", "r", "i", "s", "m">>,
            <<"d", "e", "s", "t", "i", "n", "a", "t", "i", "o", "n">>,
            <<"h", "o", "t", "e", "l">>,
            <<"f", "l", "i", "g", "h", "t">>,
            <<"a", "i", "r", "p", "l", "a", "n", "e">>,
            <<"a", "i", "r", "p", "o", "r", "t">>,
            <<"c", "o", "u", "n", "t", "r", "y">>,
            <<"c", "i", "t", "y">>,
            <<"p", "l", "a", "c", "e">>,
            <<"v", "i", "s", "i", "t">>,
            <<"e", "x", "p", "l", "o", "r", "e">>,
            <<"a", "d", "v", "e", "n", "t", "u", "r", "e">>,
            <<"s", "i", "g", "h", "t", "s", "e", "e", "i", "n", "g">> >>] >>

\* lines 170-197
general_topics ==
    << [key |-> <<"f", "o", "o", "d">>,
        words |->
          << <<"f", "o", "o", "d">>,
            <<"e", "a", "t">>,
            <<"d", "r", "i", "n", "k">>,
            <<"m", "e", "a", "l">>,
            <<"c", "o", "o", "k">>,
            <<"t", "a", "s", "t", "e">>,
            <<"r", "e", "c", "i", "p", "e">>,
            <<"c", "u", "i", "s", "i", "n", "e">>,
            <<"r", "e", "s", "t", "a", "u", "r", "a", "n", "t">>,
            <<"c", "h", "e", "f">>,
            <<"i", "n", "g", "r", "e", "d", "i", "e", "n", "t">>,
            <<"f", "l", "a", "v", "o", "r">>,
            <<"d", "i", "s", "h">>,
            <<"d", "e", "l", "i", "c", "i", "o", "u", "s">> >>],
       [key |-> <<"e", "d", "u", "c", "a", "t", "i", "o", "n">>,
        words |->
          << <<"l", "e", "a", "r", "n">>,
            <<"s", "t", "u", "d", "y">>,
            <<"e", "d", "u", "c", "a", "t", "i", "o", "n">>,
            <<"s", "c", "h", "o", "o", "l">>,
            <<"c", "o", "l", "l", "e", "g", "e">>,
            <<"u", "n", "i", "v", "e", "r", "s", "i", "t", "y">>,
            <<"k", "n", "o", "w", "l", "e", "d", "g", "e">>,
            <<"a", "c", "a", "d", "e", "m", "i", "c">>,
            <<"t", "e", "a", "c", "h", "e", "r">>,
            <<"s", "t", "u", "d", "e", "n", "t">>,
            <<"c", "l", "a", "s", "s">>,
            <<"c", "o", "u", "r", "s", "e">> >>],
       [key |-> <<"t", "e", "c", "h", "n", "o", "l", "o", "g", "y">>,
        words |->
          << <<"t", "e", "c", "h">>,
            <<"c", "o", "m", "p", "u", "t", "e", "r">>,
            <<"d", "i", "g", "i", "t", "a", "l">>,
            <<"s", "o", "f", "t", "w", "a", "r", "e">>,
            <<"h", "a", "r", "d", "w", "a", "r", "e">>,
            <<"i", "n", "t", "e", "r", "n", "e", "t">>,
            <<"o", "n", "l", "i", "n", "e">>,
            <<"d", "e", "v", "i", "c", "e">>,
            <<"a", "p", "p">>,
            <<"p", "r", "o", "g", "r", "a", "m">>,
            <<"c", "o", "d", "e">>,
            <<"d", "a", "t", "a">>,
            <<"s", "y", "s", "t", "e", "m">>,
            <<"s", "m", "a", "r", "t", "p", "h", "o", "n", "e">>,
            <<"p", "h", "o", "n", "e">>,
            <<"m", "o", "b", "i", "l", "e">>,
            <<"c", "a", "m", "e", "r", "a">>,
            <<"g", "a", "d", "g", "e", "t">>,
            <<"e", "l", "e", "c", "t", "r", "o", "n", "i", "c">>,
            <<"s", "m", "a", "r", "t">>,
            <<"t", "e", "c", "h", "n", "o", "l", "o", "g", "y">>,
            <<"w", "i", "f", "i">>,
            <<"b", "l", "u", "e", "t", "o", "o", "t", "h">>,
            <<"w", "i", "r", "e", "l", "e", "s", "s">>,
            <<"p", "r", "o", "c", "e", "s", "s", "o", "r">>,
            <<"m", "e", "m", "o", "r", "y">>,
            <<"s", "t", "o", "r", "a", "g", "e">>,
            <<"p", "h", "o", "t", "o">>,
            <<"v", "i", "d", "e", "o">>,
            <<"s", "c", "r", "e", "e", "n">>,
            <<"d", "i", "s", "p", "l", "a", "y">>,
            <<"b", "o", "u", "g", "h", "t">>,
            <<"n", "e", "w">> >>],
       [key |-> <<"s", "p", "o", "r", "t", "s">>,
        words |->
          << <<"s", "p", "o", "r", "t">>,
            <<"g", "a", "m", "e">>,
            <<"p", "l", "a", "y">>,
            <<"t", "e", "a", "m">>,
            <<"p", "l", "a", "y", "e", "r">>,
            <<"c", "o", "m", "p", "e", "t", "i", "t", "i", "o", "n">>,
            <<"m", "a", "t", "c", "h">>,
            <<"w", "i", "n">>,
            <<"l", "o", "s", "e">>,
            <<"s", "c", "o", "r", "e">>,
            <<"a", "t", "h", "l", "e", "t", "e">>,
            <<"f", "i", "t", "n", "e", "s", "s">>,
            <<"e", "x", "e", "r", "c", "i", "s", "e">> >>],
       [key |-> <<"e", "n", "t", "e", "r", "t", "a", "i", "n", "m", "e", "n", "t">>,
        words |->
          << <<"e", "n", "t", "e", "r", "t", "a", "i", "n">>,
            <<"m", "o", "v", "i", "e">>,
            <<"f", "i", "l", "m">>,
            <<"s", "h", "o", "w">>,
            <<"m", "u", "s", "i", "c">>,
            <<"s", "o", "n", "g">>,
            <<"c", "o", "n", "c", "e", "r", "t">>,
            <<"p", "e", "r", "f", "o", "r", "m", "a", "n", "c", "e">>,
            <<"a", "c", "t", "o", "r">>,
            <<"c", "e", "l", "e", "b", "r", "i", "t", "y">>,
            <<"s", "t", "a", "r">>,
            <<"w", "a", "t", "c", "h">>,
            <<"l", "i", "s", "t", "e", "n">> >>],
       [key |-> <<"h", "e", "a", "l", "t", "h">>,
        words |->
          << <<"h", "e", "a", "l", "t", "h">>,
            <<"m", "e", "d", "i", "c", "a", "l">>,
            <<"d", "o", "c", "t", "o", "r">>,
            <<"h", "o", "s", "p", "i", "t", "a", "l">>,
            <<"m", "e", "d", "i", "c", "i", "n", "e">>,
            <<"d", "i", "s", "e", "a", "s", "e">>,
            <<"t", "r", "e", "a", "t", "m", "e", "n", "t">>,
            <<"t", "h", "e", "r", "a", "p", "y">>,
            <<"w", "e", "l", "l", "n", "e", "s", "s">>,
            <<"b", "o", "d", "y">>,
            <<"m", "e", "n", "t", "a", "l">>,
            <<"p", "h", "y", "s", "i", "c", "a", "l">> >>],
       [key |-> <<"b", "u", "s", "i", "n", "e", "s", "s">>,
        words |->
          << <<"b", "u", "s", "i", "n", "e", "s", "s">>,
            <<"c", "o", "m", "p", "a", "n", "y">>,
            <<"m", "a", "r", "k", "e", "t">>,
            <<"p", "r", "o", "d", "u", "c", "t">>,
            <<"s", "e", "r", "v", "i", "c", "e">>,
            <<"c", "u", "s", "t", "o", "m", "e", "r">>,
            <<"p", "r", "o", "f", "i", "t">>,
            <<"r", "e", "v", "e", "n", "u", "e">>,
            <<"s", "a", "l", "e", "s">>,
            <<"m", "a", "n", "a", "g", "e", "m", "e", "n", "t">>,
            <<"f", "i", "n", "a", "n", "c", "e">>,
            <<"e", "c", "o", "n", "o", "m", "y">> >>],
       [key |-> <<"t", "r", "a", "v", "e", "l">>,
        words |->
          << <<"t", "r", "a", "v", "e", "l">>,
            <<"t", "r", "i", "p">>,
            <<"j", "o", "u", "r", "n", "e", "y">>,
            <<"v", "a", "c", "a", "t", "i", "o", "n">>,
            <<"t", "o", "u", "r">>,
            <<"d", "e", "s", "t", "i", "n", "a", "t", "i", "o", "n">>,
            <<"h", "o", "t", "e", "l">>,
            <<"f", "l", "i", "g", "h", "t">>,
            <<"c", "o", "u", "n", "t", "r", "y">>,
            <<"c", "i", "t", "y">>,
            <<"v", "i", "s", "i", "t">>,
            <<"e", "x", "p", "l", "o", "r", "e">>,
            <<"a", "d", "v", "e", "n", "t", "u", "r", "e">> >>] >>

\* lines 152-158: the words of the first key that equals, contains or is
\* contained in the lower-cased category; none when there is no such key
get_related_words(category) ==
    LET category_lower == Lower(category)
        hits == {k \in 1..Len(related_words_dict) :
                    \/ category_lower = related_words_dict[k].key
                    \/ Contains(related_words_dict[k].key, category_lower)
                    \/ Contains(category_lower, related_words_dict[k].key)}
    IN  IF hits = {} THEN <<>> ELSE related_words_dict[SetMin(hits)].words

\* lines 76-79 and 205-208: the first category with 'tech' in its lower-cased
\* name, when the text contains one of the terms; 0 when the loop returns nothing
TechShortcut(text, terms, categories) ==
    LET hits == {i \in 1..Len(categories) : Contains(Lower(categories[i]), Tech)}
    IN  IF (\E k \in 1..Len(terms) : Contains(text, terms[k])) /\ hits # {}
        THEN SetMin(hits) ELSE 0

\* lines 241-258: the Jaccard similarity of the character sets, as the
\* fraction <<intersection, union>>
calculate_string_similarity(str1, str2) ==
    LET set1 == {str1[i] : i \in 1..Len(str1)}
        set2 == {str2[i] : i \in 1..Len(str2)}
    IN  IF set1 \cup set2 = {} THEN <<0, 1>>
        ELSE <<Cardinality(set1 \cap set2), Cardinality(set1 \cup set2)>>

\* a < b for two fractions with positive denominators
Less(a, b) == a[1] * b[2] < b[1] * a[2]

\* max(scores, key=scores.get) for the scores of a list, score[i] a fraction:
\* the index of the first item no other item beats
FirstMax(score) ==
    SetMin({i \in DOMAIN score : \A j \in DOMAIN score : ~Less(score[i], score[j])})

\* lines 84-97, twice the combined score of a category for the words of the
\* text: the counts of the category's words and half the counts of its related words
Score2(words, category) ==
    LET found          == FindWords(Lower(category))
        category_words == {found[i] : i \in 1..Len(found)}
    IN  2 * SumCounts(ListOf(category_words), words)
          + SumCounts(get_related_words(category), words)

\* a plausible slip: the detected topic is returned, not a category
classify_by_general_topic_topic(text, categories) ==
    LET words  == FindWords(Lower(text))
        shortcut == TechShortcut(Lower(text), tech_terms, categories)
        matches == [k \in 1..Len(general_topics) |->
                      Cardinality({i \in 1..Len(general_topics[k].words) :
                                      \E n \in 1..Len(words) : words[n] = general_topics[k].words[i]})]
    IN  IF shortcut # 0 THEN Returned(categories[shortcut])
        ELSE IF \A k \in 1..Len(general_topics) : matches[k] = 0
        THEN Returned(categories[1])
        ELSE Returned(general_topics[FirstMax([k \in 1..Len(general_topics) |-> <<matches[k], 1>>])].key)

\* lines 162-238
classify_by_general_topic(text, categories) ==
    LET words  == FindWords(Lower(text))
        shortcut == TechShortcut(Lower(text), tech_terms, categories)
        \* lines 211-216: per topic, how many of its words are words of the text
        matches == [k \in 1..Len(general_topics) |->
                      Cardinality({i \in 1..Len(general_topics[k].words) :
                                      \E n \in 1..Len(words) : words[n] = general_topics[k].words[i]})]
        \* line 223
        best_topic == general_topics[FirstMax([k \in 1..Len(general_topics) |-> <<matches[k], 1>>])].key
        \* lines 226-235
        category_scores ==
            [i \in 1..Len(categories) |->
                IF Contains(Lower(categories[i]), best_topic) \/ Contains(best_topic, Lower(categories[i]))
                THEN <<10, 1>>
                ELSE calculate_string_similarity(best_topic, Lower(categories[i]))]
    IN  IF shortcut # 0 THEN Returned(categories[shortcut])
        ELSE IF \A k \in 1..Len(general_topics) : matches[k] = 0
        THEN Returned(categories[1])
        ELSE Returned(categories[FirstMax(category_scores)])

\* lines 62-104
classify_with_fallback(text, categories) ==
    LET lowered  == Lower(text)
        words    == FindWords(lowered)
        shortcut == TechShortcut(lowered, tech_indicators, categories)
        scores   == [i \in 1..Len(categories) |-> <<Score2(words, categories[i]), 2>>]
    IN  IF shortcut # 0 THEN Returned(categories[shortcut])
        ELSE IF \A i \in 1..Len(categories) : scores[i][1] = 0
        THEN classify_by_general_topic(lowered, categories)
        ELSE Returned(categories[FirstMax(scores)])

\* lines 21-42
classify_text(text, categories) ==
    IF text = <<>> \/ categories = <<>> THEN ReturnedNone
    ELSE IF Len(categories) = 1 THEN Returned(categories[1])
    ELSE classify_with_fallback(text, categories)

\* the words the texts are made of
Vocabulary == {<<"a", "p", "p", "l", "e">>, <<"l", "u", "n", "c", "h">>, <<"t", "e", "a", "m">>, <<"c", "h", "e", "f">>, <<"F", "o", "o", "d">>}

\* the candidate categories
CategoryPool == {<<"f", "o", "o", "d">>, <<"T", "e", "c", "h", "n", "o", "l", "o", "g", "y">>, <<"s", "p", "o", "r", "t", "s">>, <<"a", "r", "t">>}

RECURSIVE JoinWords(_)
JoinWords(ws) ==
    IF ws = <<>> THEN <<>>
    ELSE IF Len(ws) = 1 THEN ws[1]
    ELSE ws[1] \o <<" ">> \o JoinWords(Tail(ws))

\* the calls classify_text(text, categories): texts of words of the vocabulary
\* and lists of categories of the pool, and a call of test_classification
ClassifyCalls ==
    [text : {JoinWords(ws) : ws \in UNION {[1..n -> Vocabulary] : n \in 0..MaxWords}},
     categories : UNION {[1..n -> CategoryPool] : n \in 0..MaxCategories}]
      \cup {[text |-> <<"I", " ", "b", "o", "u", "g", "h", "t", " ", "a", " ", "n", "e", "w", " ", "s", "m", "a", "r", "t", "p", "h", "o", "n", "e", " ", "w", "i", "t", "h", " ", "a", "n", " ", "a", "m", "a", "z", "i", "n", "g", " ", "c", "a", "m", "e", "r", "a">>,
              categories |-> <<<<"f", "o", "o", "d">>, <<"l", "e", "a", "r", "n", "i", "n", "g">>, <<"t", "e", "c", "h", "n", "o", "l", "o", "g", "y">>, <<"s", "p", "o", "r", "t", "s">>>>]}

ClassifyInit ==
    /\ pc = "classify_call"
    /\ arg \in ClassifyCalls
    /\ out = None
    /\ requests = 0
    /\ nread = 0
    /\ full_response = <<>>
    /\ generated_text = <<>>
    /\ exc = None
    /\ result = None
    /\ arrived = <<>>
    /\ prev = {}

\* lines 21-42: the call classify_text(arg.text, arg.categories) returns
Classify_Return ==
    /\ pc = "classify_call"
    /\ out' = classify_text(arg.text, arg.categories)
    /\ pc' = "classify_done"
    /\ UNCHANGED <<requests, nread, full_response, generated_text, exc, result, arrived, prev, arg>>

ClassifyNext == Classify_Return

ClassifySpec == ClassifyInit /\ [][ClassifyNext]_vars

(***************************************************************************)
(* Properties.  The text searches below are stated position by position,   *)
(* on the reply the call received, not with the operators of the model.    *)
(***************************************************************************)
\* pat occurs in s at the 1-based position i
OccursAt(s, pat, i) ==
    /\ i >= 1
    /\ i + Len(pat) - 1 <= Len(s)
    /\ \A k \in 1..Len(pat) : s[i + k - 1] = pat[k]

Occurs(s, pat) == \E i \in 1..Len(s) : OccursAt(s, pat, i)

\* sentiment_analysis returned the parse of a complete stream
SA_Parsed == pc = "sa_done" /\ exc = None

\* summarize_text returned the parse of a non-empty generated text
ST_Parsed == pc = "st_done" /\ exc = None /\ generated_text # <<>>

\* the positions of generated_text where a marker SUMMARY: or POINTS: starts
MarkerStarts(t) ==
    {i \in 1..Len(t) : OccursAt(t, MarkerSummary, i) \/ OccursAt(t, MarkerPoints, i)}

\* the position after the marker that starts at i
AfterMarker(t, i) ==
    i + (IF OccursAt(t, MarkerSummary, i) THEN Len(MarkerSummary) ELSE Len(MarkerPoints))

\* the text between the n-th marker of t and the next marker (or the end of t)
SegmentAfter(t, n) ==
    LET marks == MarkerStarts(t)
        nth   == CHOOSE i \in marks : Cardinality({k \in marks : k <= i}) = n
        later == {k \in marks : k > nth}
        stop  == IF later = {} THEN Len(t) + 1 ELSE SetMin(later)
    IN  SubSeq(t, AfterMarker(t, nth), stop - 1)

\* the entries of pts occur in body one after the other, from position from on
RECURSIVE InOrder(_, _, _)
InOrder(pts, body, from) ==
    IF pts = <<>> THEN TRUE
    ELSE LET i == Find(body, Head(pts), from)
         IN  i # 0 /\ InOrder(Tail(pts), body, i + Len(Head(pts)))

\* the positions of s where a line starts with a dash
DashLineStarts(s) == {i \in 1..Len(s) : s[i] = "-" /\ (i = 1 \/ s[i - 1] = "\n")}

\* the line that starts at i carries a character that is no whitespace after its dash
HasText(s, i) ==
    \E k \in (i + 1)..Len(s) :
        /\ s[k] \notin Whitespace
        /\ \A m \in (i + 1)..k : s[m] # "\n"

\* C1: every result of sentiment_analysis, parsed or failure record, has a
\* sentiment that is one of "positive", "negative", "neutral".
C1_SentimentEnumerated ==
    pc = "sa_done" => result.sentiment \in {"positive", "negative", "neutral"}

C1_Witness ==
    /\ SA_Parsed
    /\ full_response # <<>>
    /\ ~Occurs(Lower(full_response), MarkerPositive)
    /\ result.sentiment = "negative"

\* C2: the sentiment is "positive" when "sentiment: positive" occurs anywhere in
\* the lower-cased reply, else "negative" when "sentiment: negative" occurs,
\* else "neutral" (with or without "sentiment: neutral"): priority decides, not position.
C2_SentimentByPriority ==
    SA_Parsed =>
        LET low == Lower(full_response)
            pos == Occurs(low, MarkerPositive)
            neg == Occurs(low, MarkerNegative)
        IN  /\ pos => result.sentiment = "positive"
            /\ (~pos /\ neg) => result.sentiment = "negative"
            /\ (~pos /\ ~neg) => result.sentiment = "neutral"

\* a negative marker comes first in the text, a positive one later: positive wins
C2_Witness ==
    /\ SA_Parsed
    /\ \E i, j \in 1..Len(full_response) :
         /\ i < j
         /\ OccursAt(Lower(full_response), MarkerNegative, i)
         /\ OccursAt(Lower(full_response), MarkerPositive, j)
    /\ result.sentiment = "positive"

\* C3: the rationale of every result of sentiment_analysis is non-empty.
C3_RationaleNeverEmpty ==
    pc = "sa_done" => result.rationale # <<>>

\* C4: a non-empty rationale ends with '.', '!' or '?', in parsed results and
\* in the failure record.
C4_RationaleEndsWithPunctuation ==
    (pc = "sa_done" /\ result.rationale # <<>>) =>
        result.rationale[Len(result.rationale)] \in {".", "!", "?"}

\* C5: the rationale is never longer than 100 characters, and a rationale that
\* was cut is the text before one of the spaces of the uncut sentence.
C5_RationaleBounded ==
    pc = "sa_done" =>
        /\ Len(result.rationale) <= 100
        /\ (SA_Parsed /\ Occurs(Lower(full_response), MarkerRationale)) =>
              LET whole == FirstSentence(full_response)
              IN  \/ result.rationale = AddPeriod(whole)
                  \/ \E n \in 1..(Len(whole) - 1) :
                        /\ whole[n + 1] = " "
                        /\ result.rationale = AddPeriod(Strip(Prefix(whole, n)))

\* C6: when "Sentiment: Positive" (any case) is followed later by
\* "Rationale: <words>.", the sentiment is "positive" and the rationale is the
\* trimmed text of the reply between the marker and the first period after it,
\* with that period; the same with Negative.
C6_MarkedReply ==
    SA_Parsed =>
        LET low == Lower(full_response)
        IN  \A word \in {"positive", "negative"} :
            LET marker == IF word = "positive" THEN MarkerPositive ELSE MarkerNegative
            IN  \A i \in {x \in 1..Len(low) : OccursAt(low, marker, x)} :
                \A j \in {y \in (i + 1)..Len(low) : OccursAt(low, MarkerRationale, y)} :
                    LET start   == j + Len(MarkerRationale)
                        periods == {p \in start..Len(full_response) : full_response[p] = "."}
                        words   == Strip(SubSeq(full_response, start, SetMin(periods) - 1))
                    IN  (periods # {} /\ words # <<>>)
                        => (result.sentiment = word /\ result.rationale = words \o <<".">>)

\* C7: sentiment_analysis never raises; after any exception it returns exactly
\* neutral / "error in analysis" / the exception's text, having sent one request.
C7_FailureRecord ==
    /\ pc # "sa_raised"
    /\ pc \in {"sa_post", "sa_iter", "sa_done"} => requests <= 1
    /\ (pc = "sa_done" /\ exc # None) =>
          /\ result = [sentiment |-> "neutral",
                       rationale |-> <<"e", "r", "r", "o", "r", " ", "i", "n", " ", "a", "n", "a", "l", "y", "s", "i", "s">>,
                       error |-> ExcText(exc)]
          /\ requests = 1

\* a line that is no JSON arrives after fragments were accumulated
C7_Witness ==
    /\ pc = "sa_done"
    /\ exc = "JSONDecodeError"
    /\ full_response # <<>>
    /\ "error" \in DOMAIN result

\* C8: for non-empty generated text, text_summary is "No summary generated"
\* when no marker (in upper case, as written) occurs, and otherwise the trimmed
\* text between the first marker and the next one (or the end).
C8_TextSummary ==
    ST_Parsed =>
        IF MarkerStarts(generated_text) = {}
        THEN result.summary.text_summary = <<"N", "o", " ", "s", "u", "m", "m", "a", "r", "y", " ", "g", "e", "n", "e", "r", "a", "t", "e", "d">>
        ELSE result.summary.text_summary = Strip(SegmentAfter(generated_text, 1))

\* the summary body itself holds the word "summary:" in lower case
C8_Witness ==
    /\ ST_Parsed
    /\ Cardinality(MarkerStarts(generated_text)) = 2
    /\ result.summary.text_summary = <<"S", "h", "o", "r", "t", " ", "s", "u", "m", "m", "a", "r", "y", ":", " ", "f", "i", "n", "e", ".">>

\* C9: no entry of points is empty or starts or ends with whitespace; the
\* entries occur in the points body in their order; points is empty when there
\* is no points body or no dash in it, and in every failure result.
C9_PointsOrderedTrimmed ==
    pc = "st_done" =>
        LET pts == result.summary.points
        IN  /\ \A i \in 1..Len(pts) :
                  /\ pts[i] # <<>>
                  /\ pts[i][1] \notin Whitespace
                  /\ pts[i][Len(pts[i])] \notin Whitespace
            /\ ~ST_Parsed => pts = <<>>
            /\ (ST_Parsed /\ Cardinality(MarkerStarts(generated_text)) < 2) => pts = <<>>
            /\ (ST_Parsed /\ Cardinality(MarkerStarts(generated_text)) >= 2) =>
                  LET body == SegmentAfter(generated_text, 2)
                  IN  /\ (~Occurs(body, <<"-">>)) => pts = <<>>
                      /\ InOrder(pts, body, 1)

\* three bullets, the second with a trailing blank, come out trimmed and in order
C9_Witness ==
    /\ ST_Parsed
    /\ result.summary.points = <<<<"o", "n", "e">>, <<"t", "w", "o">>, <<"t", "h", "r", "e", "e">>>>

\* C10 as stated: a generated text with both markers and at least three
\* dash-prefixed lines yields at least as many points as it has such lines.
C10_PointsPerDashLine ==
    (/\ ST_Parsed
     /\ Occurs(generated_text, MarkerSummary)
     /\ Occurs(generated_text, MarkerPoints)
     /\ Cardinality(DashLineStarts(generated_text)) >= 3)
    => Len(result.summary.points) >= Cardinality(DashLineStarts(generated_text))

\* C10 amended: when the split has a third segment, points has at least as many
\* entries as that segment has dash-prefixed lines with text after the dash.
C10_PointsPerBulletOfBody ==
    (ST_Parsed /\ Cardinality(MarkerStarts(generated_text)) >= 2) =>
        LET body    == SegmentAfter(generated_text, 2)
            bullets == {i \in DashLineStarts(body) : HasText(body, i)}
        IN  /\ Len(result.summary.points) >= Cardinality(bullets)
            /\ InOrder(result.summary.points, body, 1)

C10_Witness ==
    /\ ST_Parsed
    /\ Cardinality(MarkerStarts(generated_text)) = 2
    /\ LET body == SegmentAfter(generated_text, 2)
       IN  Cardinality({i \in DashLineStarts(body) : HasText(body, i)}) >= 3
    /\ Len(result.summary.points) >= 3

\* C11: summarize_text never raises; an empty generated text gives "Failed to
\* generate summary" with no points, and every failure of the request or of the
\* decoding, whatever the exception, gives "Error: <message>" with no points.
C11_SummaryNeverRaises ==
    /\ pc # "st_raised"
    /\ (pc = "st_done" /\ exc = None /\ generated_text = <<>>) =>
          result = [summary |-> [text_summary |-> <<"F", "a", "i", "l", "e", "d", " ", "t", "o", " ", "g", "e", "n", "e", "r", "a", "t", "e", " ", "s", "u", "m", "m", "a", "r", "y">>, points |-> <<>>]]
    /\ (pc = "st_done" /\ exc # None) =>
          result = [summary |-> [text_summary |-> <<"E", "r", "r", "o", "r", ":", " ">> \o ExcText(exc),
                                 points |-> <<>>]]

\* C12: in both extractors a result of a failure path (an exception, an empty
\* reply) carries an error field, and a result of a successful parse carries none.
C12_ErrorFieldTellsFailure ==
    /\ pc = "sa_done" =>
          ("error" \in DOMAIN result <=> (exc # None \/ full_response = <<>>))
    /\ pc = "st_done" =>
          ("error" \in DOMAIN result <=> (exc # None \/ generated_text = <<>>))

\* C20: the rationale keeps the letter case of the reply: where the returned
\* rationale (without its final period) is found in the reply regardless of
\* case, it is found there letter for letter.
C20_RationaleKeepsCase ==
    (SA_Parsed /\ result.rationale # <<>>) =>
        LET r     == result.rationale
            body  == IF r[Len(r)] = "." THEN SubSeq(r, 1, Len(r) - 1) ELSE r
            where == {i \in 1..Len(full_response) :
                        OccursAt(Lower(full_response), Lower(body), i)}
        IN  where # {} => \E i \in where : OccursAt(full_response, body, i)

\* C14: re-parsing is idempotent on marker-less input.  In a call whose reply
\* is the text returned for a reply without marker, sentiment_analysis does not
\* raise and returns the same sentiment and rationale, and summarize_text does
\* not raise and returns the same text_summary and the same (empty) points.
C14_ReparseIdempotent ==
    prev # {} =>
        /\ pc # "sa_raised"
        /\ (SA_Parsed /\ arrived # <<>>) => result = Previous
        /\ generated_text # <<>> =>
              (pc = "st_done" /\ exc = None /\ result = Previous)

\* the contents, in arrival order, of the lines that carry message.content
RECURSIVE ContentsInOrder(_)
ContentsInOrder(lines) ==
    IF lines = <<>> THEN <<>>
    ELSE (IF Head(lines).kind = "content" THEN Head(lines).content ELSE <<>>)
            \o ContentsInOrder(Tail(lines))

\* C15: the text that is parsed is the concatenation, in arrival order, of the
\* content of every streamed line that carries one; empty lines and objects
\* without message.content add nothing; and no result is extracted while the
\* stream is still read: the result is that of the whole accumulated text.
C15_ParsesWholeStream ==
    /\ pc = "sa_iter" =>
          (result = None /\ full_response = ContentsInOrder(arrived))
    /\ SA_Parsed =>
          /\ full_response = ContentsInOrder(arrived)
          /\ result = ParseSentiment(ContentsInOrder(arrived))

\* a parsed reply of three lines: two different fragments around a line that
\* carries no content
C15_Witness ==
    /\ SA_Parsed
    /\ Len(arrived) = 3
    /\ arrived[1].kind = "content"
    /\ arrived[2].kind \in {"empty", "no_content"}
    /\ arrived[3].kind = "content"
    /\ arrived[1].content # arrived[3].content
    /\ result.sentiment = "positive"

\* C16: when the reply was received, the topic is "Unknown" if the trimmed reply
\* is empty, and else the part of the trimmed reply before its first whitespace
\* or slash character; it is never empty and holds no whitespace and no slash.
C16_TopicIsFirstToken ==
    (pc = "topic_done" /\ exc = None) =>
        LET t     == Strip(arg)
            topic == out.Topic
            seps  == {i \in 1..Len(t) : t[i] \in TopicSeparators}
        IN  /\ t = <<>> => topic = Unknown
            /\ t # <<>> =>
                  topic = SubSeq(t, 1, IF seps = {} THEN Len(t) ELSE SetMin(seps) - 1)
            /\ topic # <<>>
            /\ \A i \in 1..Len(topic) : topic[i] \notin TopicSeparators

\* the canonical form YYYY-MM-DD of a date
Canonical(ymd) == Pad4(ymd[1]) \o <<"-">> \o Pad2(ymd[2]) \o <<"-">> \o Pad2(ymd[3])

StartsWith(s, p) == Len(s) >= Len(p) /\ SubSeq(s, 1, Len(p)) = p

Strict(n) == {Pad2(n)}

MonthForms(n) == {Pad2(n), Plain(n)}

\* the calendar dates <<year, month, day>> of the years 0001 to 9999 that the
\* string s writes, the month in one of the forms MF and the day in one of DF
DatesWritten(s, MF(_), DF(_)) ==
    {ymd \in UNION {{<<y, mo, d>> : d \in 1..DaysInMonth(y, mo)} :
                        y \in {y \in Years \ {0} : StartsWith(s, Pad4(y) \o <<"-">>)},
                        mo \in {mo \in 1..12 : Len(s) >= 5 /\ \E mt \in MF(mo) :
                                    StartsWith(SubSeq(s, 6, Len(s)), mt \o <<"-">>)}} :
        \E mt \in MF(ymd[2]), dt \in DF(ymd[3]) :
            s = Pad4(ymd[1]) \o <<"-">> \o mt \o <<"-">> \o dt}

\* the day after a date
NextDate(ymd) ==
    IF ymd[3] < DaysInMonth(ymd[1], ymd[2]) THEN <<ymd[1], ymd[2], ymd[3] + 1>>
    ELSE IF ymd[2] < 12 THEN <<ymd[1], ymd[2] + 1, 1>>
    ELSE <<ymd[1] + 1, 1, 1>>

WeekLater(ymd) == NextDate(NextDate(NextDate(NextDate(NextDate(NextDate(NextDate(ymd)))))))

\* the name that follows a weekday name, Monday after Sunday
DayAfter(name) ==
    CASE name = "Monday" -> "Tuesday"
      [] name = "Tuesday" -> "Wednesday"
      [] name = "Wednesday" -> "Thursday"
      [] name = "Thursday" -> "Friday"
      [] name = "Friday" -> "Saturday"
      [] name = "Saturday" -> "Sunday"
      [] name = "Sunday" -> "Monday"

\* the weekday of a Gregorian date by Zeller's congruence, which counts from
\* Saturday and takes January and February as months 13 and 14 of the year before
Zeller(ymd) ==
    LET mo == IF ymd[2] < 3 THEN ymd[2] + 12 ELSE ymd[2]
        y  == IF ymd[2] < 3 THEN ymd[1] - 1 ELSE ymd[1]
        h  == (ymd[3] + ((13 * (mo + 1)) \div 5) + (y % 100) + ((y % 100) \div 4)
                 + ((y \div 100) \div 4) + 5 * (y \div 100)) % 7
    IN  <<"Saturday", "Sunday", "Monday", "Tuesday", "Wednesday", "Thursday", "Friday">>[h + 1]

\* what get_day_of_week owes for the dates a string writes: the fixed message
\* when it writes none, else the weekday name of the date, the following name
\* for the day after, and the same name a week later
WeekdayContract(written) ==
    IF written = {} THEN out = InvalidDate
    ELSE \A ymd \in written :
            /\ out = Zeller(ymd)
            /\ get_day_of_week(Canonical(NextDate(ymd))) = DayAfter(out)
            /\ get_day_of_week(Canonical(WeekLater(ymd))) = out

\* C19 as stated: a string that is a calendar date in the form YYYY-MM-DD gets
\* its weekday name (consecutive dates consecutive names, a week later the
\* same name), and every other string gets the fixed message.
C19_WeekdayOfCanonicalDates ==
    pc = "date_done" => WeekdayContract(DatesWritten(arg, Strict, Strict))

\* C19, amended: the strings that get a weekday name are those strptime takes
\* for a calendar date: four digits of year, the month in one or two digits,
\* the day in one or two digits or padded with a space.  Every other string
\* gets the fixed message.
C19_WeekdayOfAcceptedDates ==
    pc = "date_done" => WeekdayContract(DatesWritten(arg, MonthForms, Written))

\* a leap day written with a one-digit month
C19_Witness ==
    /\ pc = "date_done"
    /\ arg = <<"2", "0", "2", "4", "-", "2", "-", "2", "9">>
    /\ out = "Thursday"

\* C17: classify_with_fallback, reached with a text and two or more candidates
\* of which one scores above zero, returns the candidate with the highest
\* combined score (its own words counted once, its related words half), and
\* of several with that score the one that comes first in the list.
C17_HighestScoreWins ==
    (pc = "classify_done" /\ arg.text # <<>> /\ Len(arg.categories) >= 2) =>
        LET words == FindWords(Lower(arg.text))
            score == [i \in 1..Len(arg.categories) |-> Score2(words, arg.categories[i])]
            best  == {i \in DOMAIN score : \A j \in DOMAIN score : score[j] <= score[i]}
        IN  (\E i \in DOMAIN score : score[i] > 0) =>
                out = Returned(arg.categories[SetMin(best)])

\* C18: classify_text returns None for an empty text or an empty list, the
\* category for a list of one, and else an element of the list.
C18_ReturnsACandidate ==
    pc = "classify_done" =>
        /\ (arg.text = <<>> \/ arg.categories = <<>>) => out = ReturnedNone
        /\ (arg.text # <<>> /\ Len(arg.categories) = 1) => out = Returned(arg.categories[1])
        /\ (arg.text # <<>> /\ Len(arg.categories) >= 2) =>
              \E i \in 1..Len(arg.categories) : out = Returned(arg.categories[i])

\* the general-topic scan chose a category that is not the first of the list
C18_Witness ==
    /\ pc = "classify_done"
    /\ arg.text = <<"c", "h", "e", "f">>
    /\ arg.categories = <<<<"a", "r", "t">>, <<"f", "o", "o", "d">>>>
    /\ out = Returned(<<"f", "o", "o", "d">>)

\* the sentence of a text: up to and including its first period, trimmed, when
\* it has one, and else the whole text, trimmed
SentenceOf(text) ==
    LET periods == {p \in 1..Len(text) : text[p] = "."}
    IN  IF periods = {} THEN Strip(text)
        ELSE Strip(SubSeq(text, 1, SetMin(periods) - 1)) \o <<".">>

\* C21: when "rationale:" occurs in the lower-cased reply, the rationale is
\* built (cut to length and closed with a period as for every rationale) from
\* the sentence of everything that follows the first occurrence of the
\* marker, however many times the marker occurs.
C21_RationaleAfterFirstMarker ==
    SA_Parsed =>
        LET low   == Lower(full_response)
            marks == {i \in 1..Len(low) : OccursAt(low, MarkerRationale, i)}
        IN  marks # {} =>
                result.rationale =
                    AddPeriod(Truncate(SentenceOf(
                        SubSeq(low, SetMin(marks) + Len(MarkerRationale), Len(low)))))

\* the period-delimited segment of text that starts after position b (0 for
\* the start of the text, else the position of a period)
SegmentFrom(text, b) ==
    LET later == {p \in (b + 1)..Len(text) : text[p] = "."}
    IN  SubSeq(text, b + 1, (IF later = {} THEN Len(text) + 1 ELSE SetMin(later)) - 1)

\* C22: when "rationale:" does not occur in the lower-cased reply, the
\* rationale is the first period-delimited segment that is not empty of the
\* lower-cased reply without the four tokens, trimmed and closed with a period.
C22_FirstNonEmptySegment ==
    (SA_Parsed /\ ~Occurs(Lower(full_response), MarkerRationale)) =>
        LET cleaned == RemoveTerms(Lower(full_response), RemovedTerms)
            starts  == {b \in 0..Len(cleaned) :
                          /\ b = 0 \/ cleaned[b] = "."
                          /\ Strip(SegmentFrom(cleaned, b)) # <<>>}
        IN  starts # {} =>
                result.rationale = AddPeriod(Strip(SegmentFrom(cleaned, SetMin(starts))))

\* the text between the marker that starts at position i of t and the next
\* marker (or the end of t)
SegmentOfMarker(t, i) ==
    LET later == {k \in MarkerStarts(t) : k > i}
    IN  SubSeq(t, AfterMarker(t, i), (IF later = {} THEN Len(t) + 1 ELSE SetMin(later)) - 1)

\* C23: the split of the generated text on SUMMARY: and POINTS: has at most
\* three segments; a text_summary other than the default is the trimmed text
\* that follows a SUMMARY: marker, and the entries of points are taken, in
\* order, from the text that follows a POINTS: marker.
C23_SegmentsByMarker ==
    ST_Parsed =>
        LET t == generated_text
        IN  /\ Len(ReSplit(t)) <= 3
            /\ MarkerStarts(t) # {} =>
                  \E i \in MarkerStarts(t) :
                      /\ OccursAt(t, MarkerSummary, i)
                      /\ result.summary.text_summary = Strip(SegmentOfMarker(t, i))
            /\ result.summary.points # <<>> =>
                  \E i \in MarkerStarts(t) :
                      /\ OccursAt(t, MarkerPoints, i)
                      /\ InOrder(result.summary.points, SegmentOfMarker(t, i), 1)

\* the bullets of a points body from position from on: for every line that
\* begins with a dash, the trimmed text from after the dash to the next such
\* line (or the end), when it is not empty
RECURSIVE BulletsFrom(_, _)
BulletsFrom(body, from) ==
    LET starts == {i \in DashLineStarts(body) : i >= from}
    IN  IF starts = {} THEN <<>>
        ELSE LET i     == SetMin(starts)
                 later == {k \in starts : k > i}
                 stop  == IF later = {} THEN Len(body) + 1 ELSE SetMin(later)
                 entry == Strip(SubSeq(body, i + 1, stop - 1))
             IN  (IF entry = <<>> THEN <<>> ELSE <<entry>>) \o BulletsFrom(body, stop)

\* C24: when the split has a third segment, the entries of points are the
\* bullets of that segment: one per line that begins with a dash, with the
\* text up to the next such line, continuation lines included; a dash inside a
\* line starts no entry.
C24_PointsAreDashLines ==
    (ST_Parsed /\ Cardinality(MarkerStarts(generated_text)) >= 2) =>
        result.summary.points = BulletsFrom(SegmentAfter(generated_text, 2), 1)

\* how many words of the k-th general topic are words of the text
TopicWordsIn(text, k) ==
    LET found == FindWords(Lower(text))
    IN  Cardinality({i \in 1..Len(general_topics[k].words) :
                        \E n \in 1..Len(found) : found[n] = general_topics[k].words[i]})

\* C25: when every candidate's combined score is zero, the result is that of
\* the general-topic scan: the first candidate when no general topic has a
\* word in the text; else, for a detected topic with the most words in the
\* text, a candidate that contains or is contained in that topic whenever
\* there is one (it beats every candidate matched by character overlap only).
C25_GeneralTopicScan ==
    (/\ pc = "classify_done"
     /\ arg.text # <<>>
     /\ Len(arg.categories) >= 2
     /\ \A i \in 1..Len(arg.categories) :
            Score2(FindWords(Lower(arg.text)), arg.categories[i]) = 0)
    => LET topics == 1..Len(general_topics)
           most   == {k \in topics : \A j \in topics :
                         TopicWordsIn(arg.text, j) <= TopicWordsIn(arg.text, k)}
       IN  IF \A k \in topics : TopicWordsIn(arg.text, k) = 0
           THEN out = Returned(arg.categories[1])
           ELSE \E k \in most :
                   LET topic  == general_topics[k].key
                       direct == {i \in 1..Len(arg.categories) :
                                     \/ Occurs(Lower(arg.categories[i]), topic)
                                     \/ Occurs(topic, Lower(arg.categories[i]))}
                   IN  direct # {} => \E i \in direct : out = Returned(arg.categories[i])

\* C26: a failure while the stream is read is all-or-nothing.  A line that
\* does not decode is the last line read and ends the call with an exception
\* caught; and whatever was accumulated before a failure, the result is the
\* failure record and nothing of it comes from the accumulated text.
C26_FailureDiscardsPartial ==
    /\ \A i \in 1..Len(arrived) :
          arrived[i].kind \in {"malformed", "bad_content"} =>
              (i = Len(arrived) /\ pc = "sa_done" /\ exc # None)
    /\ (pc = "sa_done" /\ exc # None /\ full_response # <<>>) =>
          /\ result.sentiment = "neutral"
          /\ result.rationale = <<"e", "r", "r", "o", "r", " ", "i", "n", " ", "a", "n", "a", "l", "y", "s", "i", "s">>
          /\ DOMAIN result = {"sentiment", "rationale", "error"}
          /\ result # ParseSentiment(full_response)

\* "Sentiment: Positive" was accumulated when a line that is no JSON arrived
C26_Witness ==
    /\ pc = "sa_done"
    /\ Len(arrived) >= 2
    /\ arrived[Len(arrived)].kind = "malformed"
    /\ Occurs(Lower(full_response), MarkerPositive)
    /\ Occurs(Lower(full_response), MarkerRationale)
    /\ result.sentiment = "neutral"

====
